---- MODULE Spec2Model ----
(***************************************************************************)
(* block-sync: fetch the public domain-block lists of remote Mastodon      *)
(* sites, merge them, dump a CSV, compare against the home instance and    *)
(* optionally POST the difference (src/block-sync.py).                     *)
(*                                                                         *)
(* Representation.                                                         *)
(*  - A Python str whose characters matter (domain, site, comment,         *)
(*    private_comment) is a sequence of one-character strings; "" is <<>>. *)
(*  - severity is compared only as a whole, so it is a TLA+ string.        *)
(*  - A JSON object / dict of fields is a record holding exactly the keys  *)
(*    that are present; item.get(k) of an absent key is None (falsy).      *)
(*  - A dict keyed by domain (result, mine, theirs, missing, diff) keeps   *)
(*    Python's insertion order: a sequence of [key, val] with distinct     *)
(*    keys.                                                                *)
(***************************************************************************)
EXTENDS Integers, Sequences, FiniteSets, TLC

VARIABLES
    pc,          \* position of the running function
    exc,         \* the exception that ended the run ("" while none)
    sites,       \* fetch: the list of sites to query
    si,          \* fetch: index of the site the for loop is at
    result,      \* fetch: the dict being built (aliased by merge's `old`)
    hist,        \* history: what requests.get answered, per site, in order
    mine,        \* compare: home instance's blocks
    theirs,      \* compare: collected remote blocks
    allow,       \* compare / dump_csv / main: allow list
    missing,     \* compare: the returned dict
    sites_data,  \* dump_csv / main: collected remote blocks
    f,           \* dump_csv: lines written to the file so far
    diff,        \* apply_diff / main: dict to submit
    ki,          \* apply_diff: index of the key the for loop is at
    posts,       \* history: what requests.post was given and answered
    args,        \* main: parsed settings
    my_data,     \* main: home instance's blocks
    printed      \* main: what print() wrote

vars == <<pc, exc, sites, si, result, hist, mine, theirs, allow, missing,
          sites_data, f, diff, ki, posts, args, my_data, printed>>

fetchVars   == <<sites, si, result, hist>>
compareVars == <<mine, theirs, missing>>
dumpVars    == <<sites_data, f>>
applyVars   == <<diff, ki, posts>>
mainVars    == <<args, my_data, printed>>

----------------------------------------------------------------------------
(* Bounds of the model.                                                    *)

\* sites given to one fetch() call
MaxSites == 2
\* records all sites together deliver during one fetch() call
MaxRecs == 3
\* entries of a dict handed to compare or dump_csv
MaxKeys == 2
\* entries of the diff handed to apply_diff
MaxDiff == 3
\* lines of the allow list
MaxAllow == 1

----------------------------------------------------------------------------
(* Text.                                                                   *)

\* Code point of a character: Python orders str by code point.
Ord(c) ==
    CASE c = "\"" -> 34
      [] c = "'"  -> 39
      [] c = "*"  -> 42
      [] c = "."  -> 46
      [] c = "\\" -> 92
      [] c = "a"  -> 97
      [] c = "b"  -> 98
      [] c = "x"  -> 120
      [] c = "y"  -> 121
      [] OTHER    -> 122

\* c in s
Contains(s, c) == \E i \in 1..Len(s) : s[i] = c

\* s.endswith(suffix)
endswith(s, suffix) ==
    /\ Len(suffix) <= Len(s)
    /\ SubSeq(s, Len(s) - Len(suffix) + 1, Len(s)) = suffix

\* s < t for two str: the first differing character decides, a proper
\* prefix is smaller.
RECURSIVE StrLess(_, _)
StrLess(s, t) ==
    IF t = <<>> THEN FALSE
    ELSE IF s = <<>> THEN TRUE
    ELSE IF Head(s) # Head(t) THEN Ord(Head(s)) < Ord(Head(t))
    ELSE StrLess(Tail(s), Tail(t))

\* x in lst, for a list
InList(x, lst) == \E i \in 1..Len(lst) : lst[i] = x

\* All sequences over S of length at most n.
RECURSIVE SeqsUpTo(_, _)
SeqsUpTo(S, n) ==
    IF n = 0 THEN {<<>>}
    ELSE LET shorter == SeqsUpTo(S, n - 1)
         IN  shorter \cup {Append(q, x) : q \in {r \in shorter : Len(r) = n - 1}, x \in S}

----------------------------------------------------------------------------
(* Records (JSON objects) and ordered dicts.                               *)

Has(item, k) == k \in DOMAIN item

\* item[k] = v, other keys kept
SetField(item, k, v) ==
    [x \in DOMAIN item \cup {k} |-> IF x = k THEN v ELSE item[x]]

\* bool(item.get("domain")): present and not ""
TruthyDomain(item) == Has(item, "domain") /\ item.domain # <<>>

\* bool(item.get("severity")): present and not ""
TruthySeverity(item) == Has(item, "severity") /\ item.severity # ""

DictKeys(d) == {d[i].key : i \in 1..Len(d)}

HasKey(d, k) == k \in DictKeys(d)

\* d[k], for a key of d
DictGet(d, k) == d[CHOOSE i \in 1..Len(d) : d[i].key = k].val

\* A mutation of DictSet: an existing key keeps its first value.
DictSetKeepFirst(d, k, v) ==
    IF HasKey(d, k) THEN d ELSE Append(d, [key |-> k, val |-> v])

\* d[k] = v: an existing key keeps its position and takes the new value, a
\* new key goes last.
DictSet(d, k, v) ==
    IF HasKey(d, k)
    THEN [i \in 1..Len(d) |-> IF d[i].key = k THEN [key |-> k, val |-> v] ELSE d[i]]
    ELSE Append(d, [key |-> k, val |-> v])

----------------------------------------------------------------------------
(* merge                                                                   *)

\* f"from: {origin}"
FromOrigin(origin) == <<"f", "r", "o", "m", ":", " ">> \o origin

\* A mutation of Stamp: a private_comment the record arrived with is kept.
StampIfAbsent(item, origin) ==
    IF origin # <<>> /\ ~Has(item, "private_comment")
    THEN SetField(item, "private_comment", FromOrigin(origin))
    ELSE item

\* if origin: item["private_comment"] = f"from: {origin}"
Stamp(item, origin) ==
    IF origin # <<>>
    THEN SetField(item, "private_comment", FromOrigin(origin))
    ELSE item

\* A mutation of IsWildcard: only a leading "*" counts.
IsWildcardLeading(domain) == domain # <<>> /\ Head(domain) = "*"

\* "*" in item.get("domain")
IsWildcard(domain) == Contains(domain, "*")

\* The for loop of merge from item i on. `old` is mutated in place: when an
\* item raises, the insertions made before it stay in the caller's dict.
RECURSIVE mergeFrom(_, _, _, _)
mergeFrom(old, data, origin, i) ==
    IF i > Len(data) THEN [old |-> old, raised |-> FALSE]
    ELSE LET item == data[i] IN
         IF ~TruthyDomain(item) \/ ~TruthySeverity(item)
         THEN [old |-> old, raised |-> TRUE]
         ELSE IF IsWildcard(item.domain)
         THEN mergeFrom(old, data, origin, i + 1)
         ELSE mergeFrom(DictSet(old, item.domain, Stamp(item, origin)),
                        data, origin, i + 1)

\* merge(old, data, origin): the dict `old` as the call leaves it, and
\* whether the call raised instead of returning it.
merge(old, data, origin) == mergeFrom(old, data, origin, 1)

----------------------------------------------------------------------------
(* What the remote sites can answer.                                       *)

NameA     == <<"a">>
NameB     == <<"b">>
NameBA    == <<"b", "a">>
NameSubA  == <<"b", ".", "a">>
NameSubBA == <<"a", ".", "b", "a">>

\* Host names of the remote sites.
SiteNames == {<<"x">>, <<"y">>}

\* Records a block list can hold: well-formed ones (two of them for the same
\* domain, one arriving with a private_comment), obfuscated domains, and
\* records lacking a domain or a severity.
Items ==
    { [domain |-> NameA, severity |-> "suspend", comment |-> <<"x">>],
      [domain |-> NameA, severity |-> "silence", comment |-> <<"y">>,
       private_comment |-> <<"p">>],
      [domain |-> NameSubA, severity |-> "suspend"],
      [domain |-> <<"*", ".", "a">>, severity |-> "suspend"],
      [domain |-> <<"b", "*", ".", "a">>, severity |-> "silence"],
      [domain |-> NameA, severity |-> ""],
      [severity |-> "suspend", comment |-> <<"x">>] }

\* response.status_code of a site that does not publish its list.
ErrorCodes == {404, 503}

RECURSIVE Received(_)
\* Number of records delivered so far.
Received(h) == IF h = <<>> THEN 0 ELSE Len(Head(h).json) + Received(Tail(h))

WellFormed(item) == TruthyDomain(item) /\ TruthySeverity(item)

----------------------------------------------------------------------------
(* fetch                                                                   *)

\* One pass of the for loop of fetch: `result` after the site answered resp.
\* A non-200 answer skips the site. Otherwise merge works on `result`
\* itself: returning, it hands the same dict back; raising, the except
\* branch continues with whatever merge had inserted already.
fetchSite(res, site, resp) ==
    IF resp.status_code # 200 THEN res
    ELSE merge(res, resp.json, site).old

\* fetch(sites), given what each site answers.
RECURSIVE fetchFrom(_, _, _, _)
fetchFrom(res, sitelist, resps, i) ==
    IF i > Len(sitelist) THEN res
    ELSE fetchFrom(fetchSite(res, sitelist[i], resps[i]), sitelist, resps, i + 1)

fetch(sitelist, resps) == fetchFrom(<<>>, sitelist, resps, 1)

\* A site answers with a status other than 200: logged, skipped.
FetchNot200 ==
    /\ pc = "fetch"
    /\ si <= Len(sites)
    /\ \E code \in ErrorCodes :
         LET resp == [status_code |-> code, json |-> <<>>] IN
         /\ result' = fetchSite(result, sites[si], resp)
         /\ hist' = Append(hist, [site |-> sites[si], status_code |-> code,
                                  json |-> <<>>])
    /\ si' = si + 1
    /\ UNCHANGED <<pc, exc, sites, compareVars, allow, dumpVars, applyVars, mainVars>>

\* A site answers 200 and merge returns.
FetchMerged ==
    /\ pc = "fetch"
    /\ si <= Len(sites)
    /\ \E body \in SeqsUpTo(Items, MaxRecs - Received(hist)) :
         LET resp == [status_code |-> 200, json |-> body] IN
         /\ ~merge(result, body, sites[si]).raised
         /\ result' = fetchSite(result, sites[si], resp)
         /\ hist' = Append(hist, [site |-> sites[si], status_code |-> 200,
                                  json |-> body])
    /\ si' = si + 1
    /\ UNCHANGED <<pc, exc, sites, compareVars, allow, dumpVars, applyVars, mainVars>>

\* A site answers 200 and merge raises: logged, the loop continues.
FetchMergeRaised ==
    /\ pc = "fetch"
    /\ si <= Len(sites)
    /\ \E body \in SeqsUpTo(Items, MaxRecs - Received(hist)) :
         LET resp == [status_code |-> 200, json |-> body] IN
         /\ merge(result, body, sites[si]).raised
         /\ result' = fetchSite(result, sites[si], resp)
         /\ hist' = Append(hist, [site |-> sites[si], status_code |-> 200,
                                  json |-> body])
    /\ si' = si + 1
    /\ UNCHANGED <<pc, exc, sites, compareVars, allow, dumpVars, applyVars, mainVars>>

\* The loop is over: return result.
FetchReturn ==
    /\ pc = "fetch"
    /\ si > Len(sites)
    /\ pc' = "fetched"
    /\ UNCHANGED <<exc, fetchVars, compareVars, allow, dumpVars, applyVars, mainVars>>

IdleFetch   == sites = <<>> /\ si = 0 /\ result = <<>> /\ hist = <<>>
IdleCompare == mine = <<>> /\ theirs = <<>> /\ missing = <<>>
IdleDump    == sites_data = <<>> /\ f = <<>>
IdleApply   == diff = <<>> /\ ki = 0 /\ posts = <<>>
IdleMain    == args = <<>> /\ my_data = <<>> /\ printed = <<>>

\* fetch(sites) for any non-empty list of sites (--remote takes one or more,
\* and the home instance is fetched as a one-element list).
InitFetch ==
    /\ pc = "fetch"
    /\ exc = ""
    /\ sites \in SeqsUpTo(SiteNames, MaxSites) \ {<<>>}
    /\ si = 1
    /\ result = <<>>
    /\ hist = <<>>
    /\ allow = <<>>
    /\ IdleCompare /\ IdleDump /\ IdleApply /\ IdleMain

NextFetch == FetchNot200 \/ FetchMerged \/ FetchMergeRaised \/ FetchReturn

SpecFetch == InitFetch /\ [][NextFetch]_vars

----------------------------------------------------------------------------
(* Properties of fetch and merge.                                          *)

\* The records of the answers in h, one [site, item] each, in
\* source-then-record order.
RECURSIVE Flat(_)
Flat(h) ==
    IF h = <<>> THEN <<>>
    ELSE [j \in 1..Len(Head(h).json) |->
            [site |-> Head(h).site, item |-> Head(h).json[j]]] \o Flat(Tail(h))

\* Every site answered 200 with only records that carry a non-empty domain
\* and severity.
AllGood(h) ==
    \A i \in 1..Len(h) :
        /\ h[i].status_code = 200
        /\ \A j \in 1..Len(h[i].json) : WellFormed(h[i].json[j])

\* The answer is a 200 whose records are all well-formed.
GoodAnswer(e) ==
    /\ e.status_code = 200
    /\ \A j \in 1..Len(e.json) : WellFormed(e.json[j])

\* Index of the last record for domain d in flat.
LastIndex(flat, d) ==
    CHOOSE i \in 1..Len(flat) :
        /\ flat[i].item.domain = d
        /\ \A j \in (i + 1)..Len(flat) : flat[j].item.domain # d

\* C1: when every site answers 200 with well-formed records, the dict fetch
\* returns has exactly one entry for each domain without "*" that some
\* record names, and that entry is the last record for the domain in
\* source-then-record order with private_comment "from: <its site>".
C1_LastWriteWins ==
    (pc = "fetched" /\ AllGood(hist)) =>
        LET flat == Flat(hist)
            doms == {flat[i].item.domain : i \in 1..Len(flat)}
            kept == {d \in doms : ~Contains(d, "*")}
        IN  /\ DictKeys(result) = kept
            /\ Len(result) = Cardinality(kept)
            /\ \A d \in kept :
                 LET last == flat[LastIndex(flat, d)] IN
                 DictGet(result, d) =
                     SetField(last.item, "private_comment",
                              <<"f", "r", "o", "m", ":", " ">> \o last.site)

\* C1 witness: two different sites both answered with a record for the same
\* domain, the two records differ, and fetch has returned.
C1_Witness ==
    /\ pc = "fetched"
    /\ AllGood(hist)
    /\ Len(hist) = 2
    /\ hist[1].site # hist[2].site
    /\ \E i \in 1..Len(hist[1].json), j \in 1..Len(hist[2].json) :
         /\ hist[1].json[i].domain = hist[2].json[j].domain
         /\ hist[1].json[i] # hist[2].json[j]
         /\ HasKey(result, hist[1].json[i].domain)

\* C5 (as claimed): the dict fetch returns equals the one fetch produces
\* from only the sites that answered 200 with well-formed records, in the
\* same order; a failing site contributes nothing.
C5_FailedSiteContributesNothing ==
    pc = "fetched" =>
        LET good == SelectSeq(hist, GoodAnswer) IN
        result = fetch([i \in 1..Len(good) |-> good[i].site],
                       [i \in 1..Len(good) |->
                           [status_code |-> 200, json |-> good[i].json]])

\* C8 (as claimed): a record that arrives with a private_comment keeps it;
\* only a record without one is stamped "from: <site>".
C8_KeepsExistingPrivateComment ==
    \A n \in 1..Len(result) :
        \E i \in 1..Len(hist) : \E j \in 1..Len(hist[i].json) :
            LET item == hist[i].json[j] IN
            /\ hist[i].status_code = 200
            /\ WellFormed(item)
            /\ item.domain = result[n].key
            /\ result[n].val =
                 IF Has(item, "private_comment") THEN item
                 ELSE SetField(item, "private_comment",
                               <<"f", "r", "o", "m", ":", " ">> \o hist[i].site)

\* C8 (amended): every entry of the dict is a received record stamped with
\* private_comment "from: <site>" of the site it came from, whether or not
\* the record arrived with a private_comment of its own.
C8_AlwaysStamped ==
    \A n \in 1..Len(result) :
        \E i \in 1..Len(hist) : \E j \in 1..Len(hist[i].json) :
            LET item == hist[i].json[j] IN
            /\ hist[i].status_code = 200
            /\ WellFormed(item)
            /\ item.domain = result[n].key
            /\ result[n].val =
                 SetField(item, "private_comment",
                          <<"f", "r", "o", "m", ":", " ">> \o hist[i].site)

\* C8 witness: the only record received for a domain arrived with a
\* private_comment, and the dict holds it with the stamp instead.
C8_Witness ==
    /\ Len(hist) = 1
    /\ Len(hist[1].json) = 1
    /\ Has(hist[1].json[1], "private_comment")
    /\ Len(result) = 1
    /\ result[1].val.private_comment # hist[1].json[1].private_comment

\* C9: no key of the dict contains "*", after any number of merges.
C9_NoWildcardKey ==
    \A n \in 1..Len(result) : ~Contains(result[n].key, "*")

\* C9 witness: a site answered 200 with well-formed records, one of them,
\* not the first, for a domain with "*" past its first character, and merge
\* inserted the others.
C9_Witness ==
    /\ result # <<>>
    /\ \E i \in 1..Len(hist) :
         /\ GoodAnswer(hist[i])
         /\ \E j \in 2..Len(hist[i].json) :
              /\ Contains(hist[i].json[j].domain, "*")
              /\ Head(hist[i].json[j].domain) # "*"

----------------------------------------------------------------------------
(* compare                                                                 *)

\* A mutation of Related: only the remote key is tested for the suffix.
RelatedOneWay(key, mkey) == endswith(key, mkey)

\* key.endswith(mkey) or mkey.endswith(key)
Related(key, mkey) == endswith(key, mkey) \/ endswith(mkey, key)

\* A mutation of Allowed: the first line of the allow list is not looked at.
AllowedPastFirst(key, allowlist) ==
    allowlist # <<>> /\ InList(key, Tail(allowlist))

\* key in allow
Allowed(key, allowlist) == InList(key, allowlist)

\* The inner for loop: `use` stays True unless some key of mine is related
\* to key (the first such key breaks the loop).
use(key, minedict) ==
    ~\E i \in 1..Len(minedict) : Related(key, minedict[i].key)

\* The outer for loop of compare from the i-th key of theirs on.
RECURSIVE compareFrom(_, _, _, _, _)
compareFrom(minedict, theirdict, allowlist, i, acc) ==
    IF i > Len(theirdict) THEN acc
    ELSE LET key == theirdict[i].key IN
         IF Allowed(key, allowlist)
         THEN compareFrom(minedict, theirdict, allowlist, i + 1, acc)
         ELSE IF use(key, minedict)
         THEN compareFrom(minedict, theirdict, allowlist, i + 1,
                          DictSet(acc, key, theirdict[i].val))
         ELSE compareFrom(minedict, theirdict, allowlist, i + 1, acc)

compare(minedict, theirdict, allowlist) ==
    compareFrom(minedict, theirdict, allowlist, 1, <<>>)

\* Domains blocked somewhere: a, b, ba, b.a, a.ba.
Names == {NameA, NameB, NameBA, NameSubA, NameSubBA}

\* The entry fetch holds for a domain published by site x.
EntryFor(k) ==
    [domain |-> k, severity |-> "suspend",
     private_comment |-> FromOrigin(<<"x">>)]

Distinct(q) == \A i, j \in 1..Len(q) : i # j => q[i] # q[j]

\* The dicts of up to n entries with keys among `keys`, in any order.
DictsOver(keys, n) ==
    { [i \in 1..Len(q) |-> [key |-> q[i], val |-> EntryFor(q[i])]] :
        q \in {r \in SeqsUpTo(keys, n) : Distinct(r)} }

\* Lines of an allow file after strip(): domains, or "" for a blank line.
AllowLists == SeqsUpTo(Names \cup {<<>>}, MaxAllow)

Compare ==
    /\ pc = "compare"
    /\ missing' = compare(mine, theirs, allow)
    /\ pc' = "compared"
    /\ UNCHANGED <<exc, fetchVars, mine, theirs, allow, dumpVars, applyVars, mainVars>>

InitCompare ==
    /\ pc = "compare"
    /\ exc = ""
    /\ mine \in DictsOver(Names, MaxKeys)
    /\ theirs \in DictsOver(Names, MaxKeys)
    /\ allow \in AllowLists
    /\ missing = <<>>
    /\ IdleFetch /\ IdleDump /\ IdleApply /\ IdleMain

NextCompare == Compare

SpecCompare == InitCompare /\ [][NextCompare]_vars

----------------------------------------------------------------------------
(* Properties of compare.                                                  *)

\* x is a sub-domain of y: x ends with "." followed by y.
SubDomain(x, y) ==
    /\ Len(x) > Len(y)
    /\ SubSeq(x, Len(x) - Len(y), Len(x)) = <<".">> \o y

\* k is a line of the allow list, character for character.
InAllow(k) == \E i \in 1..Len(allow) : allow[i] = k

\* C2: compare never returns a key that is in allow; the test is equality
\* with the key: with nothing blocked at home, every key of theirs that
\* equals no line of allow is returned, sub-domains of allowed domains too.
C2_NoAllowedKey ==
    pc = "compared" =>
        /\ \A k \in DictKeys(missing) : ~InAllow(k)
        /\ mine = <<>> =>
             DictKeys(missing) = {k \in DictKeys(theirs) : ~InAllow(k)}

\* C2 witness: nothing is blocked at home, theirs holds an allowed domain
\* and a sub-domain of it, and compare returned only the sub-domain.
C2_Witness ==
    /\ pc = "compared"
    /\ mine = <<>>
    /\ \E k \in DictKeys(theirs) : InAllow(k)
    /\ \E k \in DictKeys(missing) : \E i \in 1..Len(allow) : SubDomain(k, allow[i])

\* C3: a remote key that equals a local key, is a sub-domain of one, or has
\* one as its sub-domain, is not in the diff.
C3_SuffixCoverage ==
    pc = "compared" =>
        \A k \in DictKeys(theirs) : \A m \in DictKeys(mine) :
            (k = m \/ SubDomain(k, m) \/ SubDomain(m, k)) =>
                k \notin DictKeys(missing)

\* C3 witness: theirs holds a sub-domain of a local key and also a domain
\* that a local key is a sub-domain of; neither is allowed, the diff is
\* empty.
C3_Witness ==
    /\ pc = "compared"
    /\ missing = <<>>
    /\ \E k \in DictKeys(theirs) : \E m \in DictKeys(mine) :
         SubDomain(k, m) /\ ~InAllow(k)
    /\ \E k \in DictKeys(theirs) : \E m \in DictKeys(mine) :
         SubDomain(m, k) /\ ~InAllow(k)

\* C4 (as claimed): a remote key that is not allowed is left out of the
\* diff only if a local key equals it, is its sub-domain, or has it as a
\* sub-domain; sharing trailing characters across a label boundary
\* (local a, remote ba) does not leave it out.
C4_OnlyLabelBoundaryCovers ==
    pc = "compared" =>
        \A k \in DictKeys(theirs) :
            (/\ ~InAllow(k)
             /\ ~\E m \in DictKeys(mine) :
                    k = m \/ SubDomain(k, m) \/ SubDomain(m, k))
            => k \in DictKeys(missing)

----------------------------------------------------------------------------
(* apply_diff                                                              *)

\* str(None), which is what urlencode sends for a value of None.
NoneText == <<"N", "o", "n", "e">>

\* The form fields of one POST: domain, severity (default "suspend" when the
\* key is absent), private_comment, and comment when it is non-empty.
postArgs(key, data) ==
    LET base == [domain |-> key,
                 severity |-> IF Has(data, "severity") THEN data.severity
                              ELSE "suspend",
                 private_comment |-> IF Has(data, "private_comment")
                                     THEN data.private_comment ELSE NoneText]
    IN  IF Has(data, "comment") /\ data.comment # <<>>
        THEN SetField(base, "comment", data.comment)
        ELSE base

\* A mutation of postOutcome: every status other than 200 raises.
postOutcomeStrict(code) == IF code # 200 THEN "raise" ELSE "next"

\* What the loop does with resp.status_code: 422 warns and continues, any
\* other status than 200 raises, 200 falls through to the next key.
postOutcome(code) ==
    IF code = 422 THEN "continue"
    ELSE IF code # 200 THEN "raise"
    ELSE "next"

\* resp.status_code of the home instance.
PostCodes == {200, 401, 422, 500}

\* One pass of the for loop: POST the entry of the key the loop is at.
ApplyPost ==
    /\ pc = "apply"
    /\ ki <= Len(diff)
    /\ \E code \in PostCodes :
         /\ posts' = Append(posts, [args |-> postArgs(diff[ki].key, diff[ki].val),
                                    status_code |-> code])
         /\ IF postOutcome(code) = "raise"
            THEN /\ pc' = "raised"
                 /\ exc' = "Exception: Error updating blocks"
                 /\ ki' = ki
            ELSE /\ pc' = pc
                 /\ exc' = exc
                 /\ ki' = ki + 1
    /\ UNCHANGED <<fetchVars, compareVars, allow, dumpVars, diff, mainVars>>

\* The loop is over: "Changes applied."
ApplyReturn ==
    /\ pc = "apply"
    /\ ki > Len(diff)
    /\ pc' = "applied"
    /\ UNCHANGED <<exc, fetchVars, compareVars, allow, dumpVars, applyVars, mainVars>>

\* Entries a diff can hold: as fetch leaves them, with and without a
\* comment, and one carrying only its domain.
DiffEntries ==
    { [domain |-> NameA, severity |-> "suspend",
       private_comment |-> FromOrigin(<<"x">>)],
      [domain |-> NameB, severity |-> "silence", comment |-> <<"x">>,
       private_comment |-> FromOrigin(<<"y">>)],
      [domain |-> NameSubA, severity |-> "suspend", comment |-> <<>>,
       private_comment |-> FromOrigin(<<"x">>)],
      [domain |-> NameBA] }

\* The dicts of up to n of the entries E, keyed by domain, in any order.
DictsOf(E, n) ==
    { [i \in 1..Len(q) |-> [key |-> q[i].domain, val |-> q[i]]] :
        q \in {r \in SeqsUpTo(E, n) : Distinct(r)} }

InitApply ==
    /\ pc = "apply"
    /\ exc = ""
    /\ diff \in DictsOf(DiffEntries, MaxDiff)
    /\ ki = 1
    /\ posts = <<>>
    /\ allow = <<>>
    /\ IdleFetch /\ IdleCompare /\ IdleDump /\ IdleMain

NextApply == ApplyPost \/ ApplyReturn

SpecApply == InitApply /\ [][NextApply]_vars

----------------------------------------------------------------------------
(* Properties of apply_diff.                                               *)

\* C6: the POSTs are the entries of diff, one each, in diff order; every
\* response before the last is 200 or 422 (a 422 does not stop the loop);
\* the run has raised exactly when the last response is neither, so nothing
\* is posted after such a response; and the run ends successfully only
\* with every entry posted once.
C6_SequentialSubmission ==
    /\ Len(posts) <= Len(diff)
    /\ \A n \in 1..Len(posts) : posts[n].args.domain = diff[n].key
    /\ \A n \in 1..(Len(posts) - 1) : posts[n].status_code \in {200, 422}
    /\ pc = "raised" <=>
         (posts # <<>> /\ posts[Len(posts)].status_code \notin {200, 422})
    /\ pc = "applied" => Len(posts) = Len(diff)
    /\ (pc = "apply" /\ posts # <<>>) => ki = Len(posts) + 1

\* C6 witness: three entries answered 200, 422, 200, and the run ended
\* successfully.
C6_Witness ==
    /\ pc = "applied"
    /\ Len(diff) = 3
    /\ Len(posts) = 3
    /\ posts[1].status_code = 200
    /\ posts[2].status_code = 422
    /\ posts[3].status_code = 200

----------------------------------------------------------------------------
(* dump_csv                                                                *)

\* The first line written.
Header == "#domain,#severity,#reject_media,#reject_reports,#public_comment,#obfuscate"

\* re.sub("([\"'])", r"\\\1", s): a backslash goes before every quote.
RECURSIVE Escape(_)
Escape(s) ==
    IF s = <<>> THEN <<>>
    ELSE (IF Head(s) \in {"\"", "'"} THEN <<"\\", Head(s)>> ELSE <<Head(s)>>)
         \o Escape(Tail(s))

\* "{}".format(b).lower()
LowerBool(b) == IF b THEN "true" ELSE "false"

\* bool(data.get(k)) for a field that is a JSON boolean when present.
FlagSet(data, k) == Has(data, k) /\ data[k]

\* data.get(k) or default: a flag that is True stays the bool True, False
\* and None give the default string.
BoolOr(data, k, default) == IF FlagSet(data, k) THEN TRUE ELSE default

\* The list `row` built for one site.
csvRow(site, data) ==
    LET severity == IF TruthySeverity(data) THEN data.severity ELSE "silence"
    IN  << site,
           severity,
           BoolOr(data, "reject_media", LowerBool(severity = "suspend")),
           BoolOr(data, "reject_report", LowerBool(severity = "suspend")),
           <<"\"">> \o Escape(IF Has(data, "comment") THEN data.comment ELSE <<>>)
                    \o <<"\"">>,
           "false" >>

\* ",".join(row) raises TypeError when an item of row is not a str: that
\* is, when a reject flag of the entry put the bool True into the row.
JoinRaises(data) == FlagSet(data, "reject_media") \/ FlagSet(data, "reject_report")

\* The order sorted() puts two keys in.
KeyBefore(k1, k2) == StrLess(k1, k2)

\* sorted(sites_data.items(), key=lambda t: t[0]): the entries by key.
RECURSIVE sortedItems(_)
sortedItems(d) ==
    IF d = <<>> THEN <<>>
    ELSE LET m == CHOOSE i \in 1..Len(d) :
                      \A j \in 1..Len(d) : j # i => KeyBefore(d[i].key, d[j].key)
         IN  <<d[m]>> \o sortedItems([j \in 1..(Len(d) - 1) |->
                                         IF j < m THEN d[j] ELSE d[j + 1]])

\* site in allow
skipAllowed(site, allowlist) == InList(site, allowlist)

\* The for loop of dump_csv from the i-th sorted entry on: the lines written
\* and whether the loop raised.
RECURSIVE dumpFrom(_, _, _, _)
dumpFrom(items, allowlist, i, lines) ==
    IF i > Len(items) THEN [lines |-> lines, raised |-> FALSE]
    ELSE IF skipAllowed(items[i].key, allowlist)
    THEN dumpFrom(items, allowlist, i + 1, lines)
    ELSE LET row == csvRow(items[i].key, items[i].val) IN
         IF JoinRaises(items[i].val) THEN [lines |-> lines, raised |-> TRUE]
         ELSE dumpFrom(items, allowlist, i + 1, Append(lines, row))

\* dump_csv(f, sites_data, allow): what f holds afterwards.
dump_csv(data, allowlist) ==
    dumpFrom(sortedItems(data), allowlist, 1, <<Header>>)

\* dump_csv returns.
DumpCsv ==
    /\ pc = "dump"
    /\ ~dump_csv(sites_data, allow).raised
    /\ f' = dump_csv(sites_data, allow).lines
    /\ pc' = "dumped"
    /\ UNCHANGED <<exc, fetchVars, compareVars, allow, sites_data, applyVars, mainVars>>

\* dump_csv raises on a row it cannot join.
DumpCsvRaises ==
    /\ pc = "dump"
    /\ dump_csv(sites_data, allow).raised
    /\ f' = dump_csv(sites_data, allow).lines
    /\ pc' = "raised"
    /\ exc' = "TypeError"
    /\ UNCHANGED <<fetchVars, compareVars, allow, sites_data, applyVars, mainVars>>

\* Entries a collected dict can hold: the fields a block record has, the
\* optional booleans reject_media / reject_report included.
DumpEntries ==
    { [domain |-> NameA, severity |-> "suspend",
       private_comment |-> FromOrigin(<<"x">>)],
      [domain |-> NameSubA, severity |-> "silence", comment |-> <<"y", "\"">>,
       private_comment |-> FromOrigin(<<"x">>)],
      [domain |-> NameB, severity |-> "silence", reject_media |-> FALSE,
       private_comment |-> FromOrigin(<<"y">>)],
      [domain |-> NameBA, severity |-> "suspend", reject_media |-> TRUE,
       reject_report |-> TRUE, private_comment |-> FromOrigin(<<"y">>)] }

InitDump ==
    /\ pc = "dump"
    /\ exc = ""
    /\ sites_data \in DictsOf(DumpEntries, MaxKeys)
    /\ allow \in AllowLists
    /\ f = <<>>
    /\ IdleFetch /\ IdleCompare /\ IdleApply /\ IdleMain

NextDump == DumpCsv \/ DumpCsvRaises

SpecDump == InitDump /\ [][NextDump]_vars

----------------------------------------------------------------------------
(* Properties of dump_csv.                                                 *)

\* C10 (as claimed): once dump_csv has ended, the file holds the header,
\* then exactly one row for each key of the mapping that is not in allow and
\* none for a key in allow, in ascending order of the key, for every mapping.
C10_HeaderThenSortedRows ==
    pc \in {"dumped", "raised"} =>
        /\ Len(f) >= 1
        /\ f[1] = Header
        /\ {f[n][1] : n \in 2..Len(f)} = {k \in DictKeys(sites_data) : ~InAllow(k)}
        /\ Len(f) = 1 + Cardinality({k \in DictKeys(sites_data) : ~InAllow(k)})
        /\ \A n \in 2..(Len(f) - 1) : StrLess(f[n][1], f[n + 1][1])

\* The rows dump_csv does write are in ascending key order and never for an
\* allowed key, and it writes all of them when it returns.
Dump_RowsWrittenAreSorted ==
    pc \in {"dumped", "raised"} =>
        /\ f[1] = Header
        /\ {f[n][1] : n \in 2..Len(f)} \subseteq {k \in DictKeys(sites_data) : ~InAllow(k)}
        /\ \A n \in 2..(Len(f) - 1) : StrLess(f[n][1], f[n + 1][1])
        /\ pc = "dumped" =>
             Len(f) = 1 + Cardinality({k \in DictKeys(sites_data) : ~InAllow(k)})

----------------------------------------------------------------------------
(* main                                                                    *)

\* The local `diff` before any assignment to it.
Unbound == <<[unbound |-> TRUE]>>

\* What a site answers during a run of main: the fields the public
\* domain_blocks API publishes, or no list at all.
MainAnswers ==
    { [status_code |-> 200,
       json |-> << [domain |-> NameA, severity |-> "suspend", comment |-> <<"x">>],
                   [domain |-> NameSubBA, severity |-> "silence"] >>],
      [status_code |-> 200,
       json |-> << [domain |-> NameSubA, severity |-> "suspend"] >>],
      [status_code |-> 503, json |-> <<>>] }

\* The settings config() can return: --remote with one or two sites, and
\* every combination of home, app_key, output, allow and dry_run given or
\* not ("" and None are both falsy).
Settings ==
    [ remote  : {<< <<"x">> >>, << <<"x">>, <<"y">> >>},
      home    : {<<>>, <<"h">>},
      app_key : {<<>>, <<"k">>},
      output  : {<<>>, <<"o">>},
      allow   : {<<>>, <<"l">>},
      dry_run : BOOLEAN ]

\* sites_data = fetch(args.remote)
MainFetch ==
    /\ pc = "main"
    /\ \E resps \in [1..Len(args.remote) -> MainAnswers] :
         sites_data' = fetch(args.remote, resps)
    /\ pc' = "main_allow"
    /\ UNCHANGED <<exc, fetchVars, compareVars, allow, f, applyVars, mainVars>>

\* allow = [] ; if args.allow: the stripped lines of the file, or [] when
\* the file does not exist.
MainAllow ==
    /\ pc = "main_allow"
    /\ IF args.allow # <<>>
       THEN \E lines \in AllowLists : allow' = lines
       ELSE allow' = <<>>
    /\ pc' = "main_output"
    /\ UNCHANGED <<exc, fetchVars, compareVars, dumpVars, applyVars, mainVars>>

\* if args.output: dump_csv(f, sites_data, allow)
MainOutput ==
    /\ pc = "main_output"
    /\ IF args.output # <<>>
       THEN LET d == dump_csv(sites_data, allow) IN
            /\ f' = d.lines
            /\ pc' = IF d.raised THEN "raised" ELSE "main_home"
            /\ exc' = IF d.raised THEN "TypeError" ELSE exc
       ELSE /\ f' = f
            /\ pc' = "main_home"
            /\ exc' = exc
    /\ UNCHANGED <<fetchVars, compareVars, allow, sites_data, applyVars, mainVars>>

\* if args.home: is false; nothing is assigned to diff.
MainNoHome ==
    /\ pc = "main_home"
    /\ args.home = <<>>
    /\ pc' = "main_print"
    /\ UNCHANGED <<exc, fetchVars, compareVars, allow, dumpVars, applyVars, mainVars>>

\* if args.home: fetch the home list, compare, and unless dry_run go on to
\* apply_diff, which needs app_key.
MainHome ==
    /\ pc = "main_home"
    /\ args.home # <<>>
    /\ \E resp \in MainAnswers :
         /\ my_data' = fetch(<<args.home>>, <<resp>>)
         /\ diff' = compare(my_data', sites_data, allow)
    /\ IF args.dry_run
       THEN pc' = "main_print" /\ exc' = exc /\ ki' = ki
       ELSE IF args.app_key = <<>>
       THEN pc' = "raised" /\ exc' = "Exception: Missing app_key argument" /\ ki' = ki
       ELSE pc' = "apply" /\ exc' = exc /\ ki' = 1
    /\ UNCHANGED <<fetchVars, compareVars, allow, dumpVars, posts, args, printed>>

\* apply_diff returned to main.
MainApplied ==
    /\ pc = "applied"
    /\ pc' = "main_print"
    /\ UNCHANGED <<exc, fetchVars, compareVars, allow, dumpVars, applyVars, mainVars>>

\* if args.dry_run: print(json.dumps(diff, indent=2)); reading a local that
\* was never assigned raises UnboundLocalError.
MainPrint ==
    /\ pc = "main_print"
    /\ IF args.dry_run
       THEN IF diff = Unbound
            THEN pc' = "raised" /\ exc' = "UnboundLocalError" /\ printed' = printed
            ELSE pc' = "done" /\ exc' = exc /\ printed' = Append(printed, diff)
       ELSE pc' = "done" /\ exc' = exc /\ printed' = printed
    /\ UNCHANGED <<fetchVars, compareVars, allow, dumpVars, applyVars, args, my_data>>

InitMain ==
    /\ pc = "main"
    /\ exc = ""
    /\ args \in Settings
    /\ my_data = <<>>
    /\ printed = <<>>
    /\ diff = Unbound
    /\ ki = 0
    /\ posts = <<>>
    /\ allow = <<>>
    /\ IdleFetch /\ IdleCompare /\ IdleDump

NextMain ==
    \/ MainFetch
    \/ MainAllow
    \/ MainOutput
    \/ MainNoHome
    \/ MainHome
    \/ ApplyPost
    \/ ApplyReturn
    \/ MainApplied
    \/ MainPrint

SpecMain == InitMain /\ [][NextMain]_vars

----------------------------------------------------------------------------
(* Properties of main.                                                     *)

\* C7 (as claimed): with dry_run set, whatever the other settings, nothing
\* is ever POSTed, the run does not end with an exception, and when it ends
\* it has printed the diff.
C7_DryRunPrintsAndNeverFails ==
    args.dry_run =>
        /\ posts = <<>>
        /\ pc # "raised"
        /\ pc = "done" => printed = <<diff>>

====
